---- MODULE Spec2Model ----
(***************************************************************************)
(* State-machine model of the useWallet hook (src/src/hooks/useWallet.ts,  *)
(* lines 1-319): the WalletState record, the persisted reconnect flag, the *)
(* asynchronous connect / auto-reconnect / provider-event handlers with    *)
(* one action per suspension point, the listener closure and the page      *)
(* life cycle.                                                             *)
(*                                                                         *)
(* Strings that the code inspects or converts are sequences of tokens:     *)
(* a chain id string is its sequence of digit characters, an error message *)
(* its sequence of words, a balance string its sequence of characters.     *)
(* A nullable field is <<>> for null and <<v>> for the value v.            *)
(***************************************************************************)
EXTENDS Integers, Sequences, FiniteSets, Bags

VARIABLES walletState, flag, hasProvider, phase, navType,
          registered, listenerConn, tasks, last

vars == <<walletState, flag, hasProvider, phase, navType,
          registered, listenerConn, tasks, last>>

(***************************************************************************)
(* Bounds and input domains                                                *)
(***************************************************************************)
\* number of asynchronous handlers that may be suspended at the same time
MaxTasks == 2

\* the account lists the provider may push with accountsChanged, and those
\* it may answer to eth_requestAccounts and eth_accounts; NullAccounts
\* stands for a null / undefined answer
NullAccounts == <<"null">>
AccountLists == {<< >>, <<"0xB", "0xA">>}
AccountAnswers == {NullAccounts, << >>, <<"0xA", "0xB">>}

\* chain ids web3.eth.getChainId() may return
ChainIds == {1}

\* payloads of the chainChanged event: hex strings, character by character
ChainHexes == {<<"0", "x", "a">>}

\* the balance web3.eth.getBalance() returns, in units of 10^-5 ETH
\* (10^13 wei): one that toFixed(4) rounds up
Balances == {123456}

\* values a provider or RPC request may reject with
UserRejectedError == [isError |-> TRUE,
                      message |-> <<"MetaMask", ":", "User", "rejected", "the", "request">>]
InternalError == [isError |-> TRUE, message |-> <<"Internal", "error">>]
PlainObject == [isError |-> FALSE, message |-> <<"ignored">>]
Rejections == {UserRejectedError, InternalError, PlainObject}

(***************************************************************************)
(* Nullable values                                                         *)
(***************************************************************************)
Null == << >>
Some(v) == <<v>>

(***************************************************************************)
(* Pure functions                                                          *)
(***************************************************************************)
DigitChars == <<"0", "1", "2", "3", "4", "5", "6", "7", "8", "9">>

DigitChar(d) == DigitChars[d + 1]

\* String(n) / n.toString() for a non-negative integer: its decimal digits
RECURSIVE DecimalString(_)
DecimalString(n) ==
    IF n < 10 THEN <<DigitChar(n)>>
    ELSE DecimalString(n \div 10) \o <<DigitChar(n % 10)>>

HexValue(c) ==
    CASE c = "0" -> 0 [] c = "1" -> 1 [] c = "2" -> 2 [] c = "3" -> 3
      [] c = "4" -> 4 [] c = "5" -> 5 [] c = "6" -> 6 [] c = "7" -> 7
      [] c = "8" -> 8 [] c = "9" -> 9 [] c = "a" -> 10 [] c = "b" -> 11
      [] c = "c" -> 12 [] c = "d" -> 13 [] c = "e" -> 14 [] c = "f" -> 15
      [] OTHER -> -1

RECURSIVE ParseHexDigits(_, _)
ParseHexDigits(s, acc) ==
    IF s = << >> \/ HexValue(Head(s)) < 0 THEN acc
    ELSE ParseHexDigits(Tail(s), acc * 16 + HexValue(Head(s)))

\* parseInt(s, 16): an optional "0x" prefix, then hex digits up to the first
\* character that is none
ParseInt16(s) ==
    IF Len(s) >= 2 /\ s[1] = "0" /\ s[2] = "x"
    THEN ParseHexDigits(SubSeq(s, 3, Len(s)), 0)
    ELSE ParseHexDigits(s, 0)

\* variant: the fifth fractional digit is cut off instead of rounded
ToFixed4UnitsTruncating(u) == u \div 10

\* Number.parseFloat(fromWei(w)).toFixed(4) of a balance of u * 10^-5 ETH,
\* in units of 10^-4 ETH: the nearest multiple of 10^-4 (for a last digit
\* of 5 the parsed double decides; it lies above the tie for 1.23455)
ToFixed4Units(u) == IF u % 10 >= 5 THEN u \div 10 + 1 ELSE u \div 10

\* the four fractional digits of toFixed(4), zero padded
FractionDigits(f) ==
    <<DigitChar(f \div 1000), DigitChar((f \div 100) % 10),
      DigitChar((f \div 10) % 10), DigitChar(f % 10)>>

FormatBalance(u) ==
    DecimalString(ToFixed4Units(u) \div 10000) \o <<".">>
        \o FractionDigits(ToFixed4Units(u) % 10000)

\* message.includes("User rejected"), on words
RECURSIVE IncludesUserRejected(_)
IncludesUserRejected(m) ==
    IF Len(m) < 2 THEN FALSE
    ELSE IF m[1] = "User" /\ m[2] = "rejected" THEN TRUE
    ELSE IncludesUserRejected(Tail(m))

(***************************************************************************)
(* WalletState values and the state updates of the hook                    *)
(***************************************************************************)
NotInstalledMessage ==
    <<"MetaMask", "is", "not", "installed", ".", "Please", "install", "it", ".">>
NoAccountsMessage ==
    <<"No", "accounts", "found", "or", "user", "rejected", "connection">>
RejectedByUserMessage == <<"Connection", "rejected", "by", "user">>
NonErrorMessage == <<"User", "rejected", "connection">>
AccountFailedMessage == <<"Failed", "to", "update", "account", "information">>
NetworkFailedMessage == <<"Failed", "to", "update", "network", "information">>

\* useState initial value; also the record disconnect() installs
DefaultState ==
    [address |-> Null, isConnected |-> FALSE, isConnecting |-> FALSE,
     error |-> Null, chainId |-> Null, balance |-> Null]

\* variant: the missing-provider branch runs into the connecting update
ConnectNoProviderConnecting(prev) ==
    [prev EXCEPT !.isConnecting = TRUE, !.error = Some(NotInstalledMessage)]

\* connect(), no provider: setWalletState(prev => ({...prev, error}))
ConnectNoProvider(prev) == [prev EXCEPT !.error = Some(NotInstalledMessage)]

\* connect(), before the request
ConnectStart(prev) == [prev EXCEPT !.isConnecting = TRUE, !.error = Null]

\* connect(), the request answered null or an empty list
\* variant: the empty answer leaves the connecting mark set
ConnectNoAccountsStillConnecting(prev) ==
    [prev EXCEPT !.error = Some(NoAccountsMessage)]

ConnectNoAccounts(prev) ==
    [prev EXCEPT !.isConnecting = FALSE, !.error = Some(NoAccountsMessage)]

\* variant: the success path forgets to end the connecting phase
ConnectedSnapshotStillConnecting(address, chainId, balanceUnits) ==
    [address |-> Some(address), isConnected |-> TRUE, isConnecting |-> TRUE,
     error |-> Null, chainId |-> Some(DecimalString(chainId)),
     balance |-> Some(FormatBalance(balanceUnits))]

\* connect(), success: the state is replaced
ConnectedSnapshot(address, chainId, balanceUnits) ==
    [address |-> Some(address), isConnected |-> TRUE, isConnecting |-> FALSE,
     error |-> Null, chainId |-> Some(DecimalString(chainId)),
     balance |-> Some(FormatBalance(balanceUnits))]

\* connect(), inner catch: the message of the rejection
ConnectErrorMessage(r) == IF r.isError THEN r.message ELSE NonErrorMessage

\* variant: the message is stored as it came, not normalised
ConnectErrorTextRaw(r) == ConnectErrorMessage(r)

ConnectErrorText(r) ==
    IF IncludesUserRejected(ConnectErrorMessage(r))
    THEN RejectedByUserMessage
    ELSE ConnectErrorMessage(r)

\* variant: the inner catch forces isConnected false as the outer catch does
ConnectFailedForcesDisconnected(prev, r) ==
    [prev EXCEPT !.isConnecting = FALSE, !.isConnected = FALSE,
                 !.error = Some(ConnectErrorText(r))]

\* connect(), inner catch: the state update
\* variant: the catch block leaves the connecting mark set
ConnectFailedStillConnecting(prev, r) ==
    [prev EXCEPT !.error = Some(ConnectErrorText(r))]

ConnectFailed(prev, r) ==
    [prev EXCEPT !.isConnecting = FALSE, !.error = Some(ConnectErrorText(r))]

\* variant: disconnect() resets the connection fields and keeps the error
DisconnectStateKeepsError(prev) == [DefaultState EXCEPT !.error = prev.error]

\* variant: disconnect() reports an error when nothing was connected
DisconnectStateComplains(prev) ==
    IF prev.isConnected \/ prev.isConnecting \/ prev.error # Null
    THEN DefaultState
    ELSE [DefaultState EXCEPT !.error = Some(<<"Wallet", "not", "connected">>)]

\* disconnect(): the state is replaced by the defaults
DisconnectState(prev) == DefaultState

\* auto-reconnect, success: the state is replaced
ReconnectSnapshot(address, chainId, balanceUnits) ==
    [address |-> Some(address), isConnected |-> TRUE, isConnecting |-> FALSE,
     error |-> Null, chainId |-> Some(DecimalString(chainId)),
     balance |-> Some(FormatBalance(balanceUnits))]

\* variant: the refresh replaces the record as connect() does
AccountsRefreshReplaces(prev, address, chainId, balanceUnits) ==
    [address |-> Some(address), isConnected |-> TRUE, isConnecting |-> FALSE,
     error |-> Null, chainId |-> Some(DecimalString(chainId)),
     balance |-> Some(FormatBalance(balanceUnits))]

\* handleAccountsChanged, success: merged into the previous state
AccountsRefresh(prev, address, chainId, balanceUnits) ==
    [prev EXCEPT !.address = Some(address), !.isConnected = TRUE,
                 !.chainId = Some(DecimalString(chainId)),
                 !.balance = Some(FormatBalance(balanceUnits)),
                 !.error = Null]

AccountsRefreshFailed(prev) ==
    [prev EXCEPT !.error = Some(AccountFailedMessage)]

\* handleChainChanged: chainId = parseInt(chainIdHex, 16).toString()
ChainIdOfHex(hex) == DecimalString(ParseInt16(hex))

\* handleChainChanged, success: merged into the previous state
ChainRefresh(prev, chainIdString, address, balanceUnits) ==
    [prev EXCEPT !.chainId = Some(chainIdString), !.address = Some(address),
                 !.isConnected = TRUE,
                 !.balance = Some(FormatBalance(balanceUnits)),
                 !.error = Null]

ChainRefreshFailed(prev) ==
    [prev EXCEPT !.error = Some(NetworkFailedMessage)]

\* variant: auto-reconnect asks with the prompting request
PromptingReconnectMethod == "eth_requestAccounts"

\* the request connect() makes, and the one auto-reconnect makes
ConnectMethod == "eth_requestAccounts"
ReconnectMethod == "eth_accounts"

\* auto-reconnect runs when localStorage holds "true" (flag) for the key
ShouldReconnect(f) == f

\* handleBeforeUnload: the flag after the handler ran on a page whose
\* navigation entry has type nt
FlagAfterUnload(f, nt) == IF nt = "reload" THEN f ELSE FALSE

(***************************************************************************)
(* Suspended handlers                                                      *)
(***************************************************************************)
\* kind: the handler; pc: the request it awaits; address, chainId and
\* chainIdString: its local constants once assigned; raced: for a connect(),
\* whether an accountsChanged event with an account was delivered since the
\* call
IdleTask ==
    [kind |-> "none", pc |-> "none", address |-> "", chainId |-> 0,
     chainIdString |-> << >>, raced |-> FALSE]

\* the suspended handlers form a multiset: they carry no identity
NoTasks == EmptyBag

Suspended == BagToSet(tasks)

At(t, kind, pc) == t.kind = kind /\ t.pc = pc

Spawn(t) ==
    /\ BagCardinality(tasks) < MaxTasks
    /\ tasks' = tasks (+) SetToBag({t})

Finish(t) == tasks' = tasks (-) SetToBag({t})

Resume(t, u) == tasks' = (tasks (-) SetToBag({t})) (+) SetToBag({u})

\* the suspended handlers once an accountsChanged event with an account is
\* delivered: every connect() in flight has been raced
Overtake(t) == IF t.kind = "connect" THEN [t EXCEPT !.raced = TRUE] ELSE t

Overtaken(bag) ==
    [u \in {Overtake(t) : t \in BagToSet(bag)} |->
        CopiesIn(u, bag)
        + (IF u.kind = "connect"
           THEN CopiesIn([u EXCEPT !.raced = FALSE], bag) ELSE 0)]

\* the step just taken: the operation, the request it issued, for a handler
\* that completed its local constants and the balance it fetched, the value
\* its request rejected with, and whether a disconnect() call directly
\* follows another; for a handler that completed also whether the record was
\* connected before, whether it was raced, and the step the completion
\* directly followed
NoReason == [isError |-> FALSE, message |-> << >>]

NoStep ==
    [op |-> "init", req |-> "none", address |-> "", chainId |-> 0,
     chainIdString |-> << >>, balance |-> 0, reason |-> NoReason,
     repeated |-> FALSE, wasConnected |-> FALSE, raced |-> FALSE,
     after |-> "other"]

Did(op, req) == last' = [NoStep EXCEPT !.op = op, !.req = req]

Completed(op, t, b) ==
    last' = [NoStep EXCEPT !.op = op, !.address = t.address,
                           !.chainId = t.chainId,
                           !.chainIdString = t.chainIdString, !.balance = b,
                           !.wasConnected = walletState.isConnected,
                           !.raced = t.raced,
                           !.after = IF last.op \in {"disconnect",
                                                       "accountsRefreshed"}
                                     THEN last.op
                                     ELSE "other"]

Rejected(op, r) == last' = [NoStep EXCEPT !.op = op, !.reason = r]

HasAccount(accounts) == accounts # NullAccounts /\ Len(accounts) > 0

Page == <<hasProvider, phase, navType>>

Listener == <<registered, listenerConn>>

\* the number of handlers of this hook the provider holds for each event
NoListeners == [accountsChanged |-> 0, chainChanged |-> 0, disconnect |-> 0]

\* window.ethereum.on(...) for the three events
AddListeners(reg) == [e \in DOMAIN reg |-> reg[e] + 1]

\* variant: the cleanup passes functions the provider does not hold
RemoveListenersMissing(reg) == reg

\* the effect's cleanup: window.ethereum.removeListener(...) for the three
RemoveListeners(reg) ==
    [e \in DOMAIN reg |-> IF reg[e] > 0 THEN reg[e] - 1 ELSE 0]

(***************************************************************************)
(* Initial state: a fresh navigation, before the effects of the first      *)
(* render have run                                                         *)
(***************************************************************************)
Init ==
    /\ walletState = DefaultState
    /\ flag = FALSE
    /\ hasProvider \in BOOLEAN
    /\ phase = "rendered"
    /\ navType = "navigate"
    /\ registered = NoListeners
    /\ listenerConn = FALSE
    /\ tasks = NoTasks
    /\ last = NoStep

(***************************************************************************)
(* Mount: the effects of the first render                                  *)
(***************************************************************************)
\* auto-reconnect effect, listener effects
Mount ==
    /\ phase = "rendered"
    /\ phase' = "mounted"
    /\ registered' = IF hasProvider THEN AddListeners(registered)
                     ELSE registered
    /\ listenerConn' = walletState.isConnected
    /\ IF ShouldReconnect(flag) /\ hasProvider
       THEN /\ Spawn([IdleTask EXCEPT !.kind = "reconnect", !.pc = ReconnectMethod])
            /\ Did("mount", ReconnectMethod)
       ELSE /\ UNCHANGED tasks
            /\ Did("mount", "none")
    /\ UNCHANGED <<walletState, flag, hasProvider, navType>>

(***************************************************************************)
(* connect()                                                               *)
(***************************************************************************)
ConnectCall ==
    /\ phase = "mounted"
    /\ IF ~hasProvider
       THEN /\ walletState' = ConnectNoProvider(walletState)
            /\ Did("connectNoProvider", "none")
            /\ UNCHANGED tasks
       ELSE /\ Spawn([IdleTask EXCEPT !.kind = "connect", !.pc = ConnectMethod])
            /\ walletState' = ConnectStart(walletState)
            /\ Did("connect", ConnectMethod)
    /\ UNCHANGED <<flag, Page, Listener>>

ConnectAccounts(t, accounts) ==
    /\ At(t, "connect", ConnectMethod)
    /\ IF ~HasAccount(accounts)
       THEN /\ walletState' = ConnectNoAccounts(walletState)
            /\ Finish(t)
            /\ Did("connectNoAccounts", "none")
       ELSE /\ Resume(t, [t EXCEPT !.address = accounts[1], !.pc = "eth_chainId"])
            /\ Did("resumed", "eth_chainId")
            /\ UNCHANGED walletState
    /\ UNCHANGED <<flag, Page, Listener>>

ConnectChainId(t, c) ==
    /\ At(t, "connect", "eth_chainId")
    /\ Resume(t, [t EXCEPT !.chainId = c, !.pc = "eth_getBalance"])
    /\ Did("resumed", "eth_getBalance")
    /\ UNCHANGED <<walletState, flag, Page, Listener>>

\* variant: a connect() that an accountsChanged event has raced does not
\* write the record
ConnectBalanceFenced(t, b) ==
    /\ At(t, "connect", "eth_getBalance")
    /\ walletState' = IF t.raced THEN walletState
                      ELSE ConnectedSnapshot(t.address, t.chainId, b)
    /\ flag' = TRUE
    /\ Finish(t)
    /\ Completed("connectSuccess", t, b)
    /\ UNCHANGED <<Page, Listener>>

ConnectBalance(t, b) ==
    /\ At(t, "connect", "eth_getBalance")
    /\ walletState' = ConnectedSnapshot(t.address, t.chainId, b)
    /\ flag' = TRUE
    /\ Finish(t)
    /\ Completed("connectSuccess", t, b)
    /\ UNCHANGED <<Page, Listener>>

ConnectReject(t, r) ==
    /\ t.kind = "connect"
    /\ walletState' = ConnectFailed(walletState, r)
    /\ Finish(t)
    /\ Rejected("connectRejected", r)
    /\ UNCHANGED <<flag, Page, Listener>>

(***************************************************************************)
(* disconnect()                                                            *)
(***************************************************************************)
\* variant: disconnect() leaves the persisted flag in place
DisconnectBodyKeepsFlag(op) ==
    /\ walletState' = DisconnectState(walletState)
    /\ flag' = flag
    /\ last' = [NoStep EXCEPT
                   !.op = op,
                   !.req = IF hasProvider THEN "wallet_revokePermissions"
                           ELSE "none",
                   !.repeated = (op = "disconnect" /\ last.op = "disconnect")]

\* the body of disconnect(), called by the user and by the event handlers
DisconnectBody(op) ==
    /\ walletState' = DisconnectState(walletState)
    /\ flag' = FALSE
    /\ last' = [NoStep EXCEPT
                   !.op = op,
                   !.req = IF hasProvider THEN "wallet_revokePermissions"
                           ELSE "none",
                   !.repeated = (op = "disconnect" /\ last.op = "disconnect")]

\* variant: disconnect() abandons the handlers that are suspended
DisconnectCallCancels ==
    /\ phase = "mounted"
    /\ DisconnectBody("disconnect")
    /\ tasks' = NoTasks
    /\ UNCHANGED <<Page, Listener>>

DisconnectCall ==
    /\ phase = "mounted"
    /\ DisconnectBody("disconnect")
    /\ UNCHANGED <<tasks, Page, Listener>>

(***************************************************************************)
(* auto-reconnect                                                          *)
(***************************************************************************)
\* variant: an answer without accounts is taken for a failure
ReconnectAccountsClearsFlag(t, accounts) ==
    /\ At(t, "reconnect", ReconnectMethod)
    /\ IF accounts = NullAccounts \/ Len(accounts) = 0
       THEN /\ flag' = FALSE
            /\ Finish(t)
            /\ Did(IF accounts = NullAccounts THEN "reconnectFailed"
                   ELSE "reconnectNoAccounts", "none")
       ELSE /\ Resume(t, [t EXCEPT !.address = accounts[1], !.pc = "eth_chainId"])
            /\ Did("resumed", "eth_chainId")
            /\ UNCHANGED flag
    /\ UNCHANGED <<walletState, Page, Listener>>

ReconnectAccounts(t, accounts) ==
    /\ At(t, "reconnect", ReconnectMethod)
    /\ IF accounts = NullAccounts
       THEN \* accounts.length throws, caught
            /\ flag' = FALSE
            /\ Finish(t)
            /\ Did("reconnectFailed", "none")
       ELSE IF Len(accounts) > 0
       THEN /\ Resume(t, [t EXCEPT !.address = accounts[1], !.pc = "eth_chainId"])
            /\ Did("resumed", "eth_chainId")
            /\ UNCHANGED flag
       ELSE /\ Finish(t)
            /\ Did("reconnectNoAccounts", "none")
            /\ UNCHANGED flag
    /\ UNCHANGED <<walletState, Page, Listener>>

ReconnectChainId(t, c) ==
    /\ At(t, "reconnect", "eth_chainId")
    /\ Resume(t, [t EXCEPT !.chainId = c, !.pc = "eth_getBalance"])
    /\ Did("resumed", "eth_getBalance")
    /\ UNCHANGED <<walletState, flag, Page, Listener>>

ReconnectBalance(t, b) ==
    /\ At(t, "reconnect", "eth_getBalance")
    /\ walletState' = ReconnectSnapshot(t.address, t.chainId, b)
    /\ Finish(t)
    /\ Completed("reconnectSuccess", t, b)
    /\ UNCHANGED <<flag, Page, Listener>>

\* variant: the catch block of auto-reconnect reports the failure
ReconnectRejectShowsError(t) ==
    /\ t.kind = "reconnect"
    /\ flag' = FALSE
    /\ walletState' = [walletState EXCEPT
                          !.error = Some(<<"Auto", "reconnect", "failed">>)]
    /\ Finish(t)
    /\ Did("reconnectFailed", "none")
    /\ UNCHANGED <<Page, Listener>>

\* the catch block ignores the value the request rejected with
ReconnectReject(t) ==
    /\ t.kind = "reconnect"
    /\ flag' = FALSE
    /\ Finish(t)
    /\ Did("reconnectFailed", "none")
    /\ UNCHANGED <<walletState, Page, Listener>>

(***************************************************************************)
(* Provider events                                                         *)
(***************************************************************************)
\* handleAccountsChanged up to its first await
AccountsChanged(accounts) ==
    /\ phase = "mounted" /\ registered.accountsChanged > 0
    /\ IF Len(accounts) = 0
       THEN /\ DisconnectBody("accountsChangedEmpty")
            /\ UNCHANGED tasks
       ELSE /\ BagCardinality(tasks) < MaxTasks
            /\ tasks' = Overtaken(tasks) (+)
                         SetToBag({[IdleTask EXCEPT !.kind = "accounts",
                                                    !.address = accounts[1],
                                                    !.pc = "eth_chainId"]})
            /\ Did("accountsChanged", "eth_chainId")
            /\ UNCHANGED <<walletState, flag>>
    /\ UNCHANGED <<Page, Listener>>

AccountsChainId(t, c) ==
    /\ At(t, "accounts", "eth_chainId")
    /\ Resume(t, [t EXCEPT !.chainId = c, !.pc = "eth_getBalance"])
    /\ Did("resumed", "eth_getBalance")
    /\ UNCHANGED <<walletState, flag, Page, Listener>>

AccountsBalance(t, b) ==
    /\ At(t, "accounts", "eth_getBalance")
    /\ walletState' = AccountsRefresh(walletState, t.address,
                                      t.chainId, b)
    /\ Finish(t)
    /\ Completed("accountsRefreshed", t, b)
    /\ UNCHANGED <<flag, Page, Listener>>

\* the catch block ignores the value the request rejected with
AccountsReject(t) ==
    /\ t.kind = "accounts"
    /\ walletState' = AccountsRefreshFailed(walletState)
    /\ Finish(t)
    /\ Did("accountsFailed", "none")
    /\ UNCHANGED <<flag, Page, Listener>>

\* handleChainChanged up to its first await; the guard reads the isConnected
\* of the render whose effect registered the handler
ChainChanged(hex) ==
    /\ phase = "mounted" /\ registered.chainChanged > 0
    /\ IF ~listenerConn
       THEN /\ Did("chainChangedIgnored", "none")
            /\ UNCHANGED tasks
       ELSE /\ Spawn([IdleTask EXCEPT !.kind = "chain",
                                              !.chainIdString = ChainIdOfHex(hex),
                                              !.pc = "eth_accounts"])
            /\ Did("chainChanged", "eth_accounts")
    /\ UNCHANGED <<walletState, flag, Page, Listener>>

ChainAccounts(t, accounts) ==
    /\ At(t, "chain", "eth_accounts")
    /\ IF accounts = NullAccounts
       THEN \* accounts.length throws, caught
            /\ walletState' = ChainRefreshFailed(walletState)
            /\ Finish(t)
            /\ Did("chainFailed", "none")
            /\ UNCHANGED flag
       ELSE IF Len(accounts) > 0
       THEN /\ Resume(t, [t EXCEPT !.address = accounts[1], !.pc = "eth_getBalance"])
            /\ Did("resumed", "eth_getBalance")
            /\ UNCHANGED <<walletState, flag>>
       ELSE /\ DisconnectBody("chainNoAccounts")
            /\ Finish(t)
    /\ UNCHANGED <<Page, Listener>>

ChainBalance(t, b) ==
    /\ At(t, "chain", "eth_getBalance")
    /\ walletState' = ChainRefresh(walletState, t.chainIdString,
                                   t.address, b)
    /\ Finish(t)
    /\ Completed("chainRefreshed", t, b)
    /\ UNCHANGED <<flag, Page, Listener>>

\* the catch block ignores the value the request rejected with
ChainReject(t) ==
    /\ t.kind = "chain"
    /\ walletState' = ChainRefreshFailed(walletState)
    /\ Finish(t)
    /\ Did("chainFailed", "none")
    /\ UNCHANGED <<flag, Page, Listener>>

\* handleDisconnect
ProviderDisconnect ==
    /\ phase = "mounted" /\ registered.disconnect > 0
    /\ DisconnectBody("providerDisconnect")
    /\ UNCHANGED <<tasks, Page, Listener>>

(***************************************************************************)
(* Listener effect and page life cycle                                     *)
(***************************************************************************)
\* the listener effect runs again after a render in which isConnected
\* changed: the old handlers are removed, new ones close over the new value
EffectSync ==
    /\ phase = "mounted"
    /\ listenerConn # walletState.isConnected
    /\ listenerConn' = walletState.isConnected
    /\ registered' = IF hasProvider
                     THEN AddListeners(RemoveListeners(registered))
                     ELSE registered
    /\ Did("effect", "none")
    /\ UNCHANGED <<walletState, flag, tasks, Page>>

\* the component unmounts: the cleanups of the effects run; the suspended
\* handlers still complete, for a record that is rendered no more
Unmount ==
    /\ phase = "mounted"
    /\ phase' = "unmounted"
    /\ registered' = IF hasProvider THEN RemoveListeners(registered)
                     ELSE registered
    /\ Did("unmount", "none")
    /\ UNCHANGED <<walletState, flag, hasProvider, navType, listenerConn,
                   tasks>>

\* beforeunload, then the next load of the page up to its first render;
\* how = "reload" or "close" (the page is opened again by a navigation);
\* the beforeunload handler is registered while the hook is mounted
Unload(how) ==
    /\ phase \in {"mounted", "unmounted"}
    /\ flag' = IF phase = "mounted" THEN FlagAfterUnload(flag, navType)
               ELSE flag
    /\ navType' = IF how = "reload" THEN "reload" ELSE "navigate"
    /\ hasProvider' \in BOOLEAN
    /\ phase' = "rendered"
    /\ walletState' = DefaultState
    /\ tasks' = NoTasks
    /\ registered' = NoListeners
    /\ listenerConn' = FALSE
    /\ Did(how, "none")

(***************************************************************************)
(* Specification                                                           *)
(***************************************************************************)
Next ==
    \/ Mount
    \/ ConnectCall
    \/ \E t \in Suspended, a \in AccountAnswers : ConnectAccounts(t, a)
    \/ \E t \in Suspended, c \in ChainIds : ConnectChainId(t, c)
    \/ \E t \in Suspended, b \in Balances : ConnectBalance(t, b)
    \/ \E t \in Suspended, r \in Rejections : ConnectReject(t, r)
    \/ DisconnectCall
    \/ \E t \in Suspended, a \in AccountAnswers : ReconnectAccounts(t, a)
    \/ \E t \in Suspended, c \in ChainIds : ReconnectChainId(t, c)
    \/ \E t \in Suspended, b \in Balances : ReconnectBalance(t, b)
    \/ \E t \in Suspended : ReconnectReject(t)
    \/ \E a \in AccountLists : AccountsChanged(a)
    \/ \E t \in Suspended, c \in ChainIds : AccountsChainId(t, c)
    \/ \E t \in Suspended, b \in Balances : AccountsBalance(t, b)
    \/ \E t \in Suspended : AccountsReject(t)
    \/ \E h \in ChainHexes : ChainChanged(h)
    \/ \E t \in Suspended, a \in AccountAnswers : ChainAccounts(t, a)
    \/ \E t \in Suspended, b \in Balances : ChainBalance(t, b)
    \/ \E t \in Suspended : ChainReject(t)
    \/ ProviderDisconnect
    \/ EffectSync
    \/ Unmount
    \/ \E how \in {"reload", "close"} : Unload(how)

Spec == Init /\ [][Next]_vars

(***************************************************************************)
(* One page from its first render on, the hook staying mounted, where the   *)
(* requests of connect() calls are settled in the end                       *)
(***************************************************************************)
\* the first render of a page: an earlier page may have left the flag set
LiveInit ==
    /\ walletState = DefaultState
    /\ flag \in BOOLEAN
    /\ hasProvider \in BOOLEAN
    /\ phase = "rendered"
    /\ navType = "navigate"
    /\ registered = NoListeners
    /\ listenerConn = FALSE
    /\ tasks = NoTasks
    /\ last = NoStep

LiveNext ==
    \/ Mount
    \/ ConnectCall
    \/ \E t \in Suspended, a \in AccountAnswers : ConnectAccounts(t, a)
    \/ \E t \in Suspended, c \in ChainIds : ConnectChainId(t, c)
    \/ \E t \in Suspended, b \in Balances : ConnectBalance(t, b)
    \/ \E t \in Suspended, r \in Rejections : ConnectReject(t, r)
    \/ DisconnectCall
    \/ \E t \in Suspended, a \in AccountAnswers : ReconnectAccounts(t, a)
    \/ \E t \in Suspended, c \in ChainIds : ReconnectChainId(t, c)
    \/ \E t \in Suspended, b \in Balances : ReconnectBalance(t, b)
    \/ \E t \in Suspended : ReconnectReject(t)
    \/ \E a \in AccountLists : AccountsChanged(a)
    \/ \E t \in Suspended, c \in ChainIds : AccountsChainId(t, c)
    \/ \E t \in Suspended, b \in Balances : AccountsBalance(t, b)
    \/ \E t \in Suspended : AccountsReject(t)
    \/ \E h \in ChainHexes : ChainChanged(h)
    \/ \E t \in Suspended, a \in AccountAnswers : ChainAccounts(t, a)
    \/ \E t \in Suspended, b \in Balances : ChainBalance(t, b)
    \/ \E t \in Suspended : ChainReject(t)
    \/ ProviderDisconnect
    \/ EffectSync

\* the request the connect() t awaits resolves or rejects
ConnectSettles(t) ==
    \/ \E a \in AccountAnswers : ConnectAccounts(t, a)
    \/ \E c \in ChainIds : ConnectChainId(t, c)
    \/ \E b \in Balances : ConnectBalance(t, b)
    \/ \E r \in Rejections : ConnectReject(t, r)

\* a request awaited by some connect() resolves or rejects
ConnectProgress == \E t \in Suspended : ConnectSettles(t)

\* while a connect() awaits a request, a request of a connect() is settled
\* in the end
SpecLive == LiveInit /\ [][LiveNext]_vars /\ WF_vars(ConnectProgress)

(***************************************************************************)
(* Properties                                                              *)
(***************************************************************************)
(***************************************************************************)
(* The balance formatting alone: a fetched amount is drawn and formatted    *)
(***************************************************************************)
\* fetched amounts in units of 10^-5 ETH, around 0, 0.001, 1, 1.2345, 10 and
\* 12.3456 ETH; a last digit of 5 is left out, where the parsed double
\* decides the direction
FormatInputs ==
    {base + d : base \in {0, 90, 99990, 123450, 999990, 1234560},
                d \in (0..9) \ {5}}

FormatInit ==
    /\ walletState = DefaultState
    /\ flag = FALSE
    /\ hasProvider = TRUE
    /\ phase = "rendered"
    /\ navType = "navigate"
    /\ registered = NoListeners
    /\ listenerConn = FALSE
    /\ tasks = NoTasks
    /\ \E u \in FormatInputs : last = [NoStep EXCEPT !.balance = u]

\* balance: Number.parseFloat(balanceEth).toFixed(4)
FormatApply ==
    /\ last.op = "init"
    /\ walletState' = [walletState EXCEPT
                          !.balance = Some(FormatBalance(last.balance))]
    /\ last' = [last EXCEPT !.op = "formatted"]
    /\ UNCHANGED <<flag, Page, Listener, tasks>>

SpecFormat == FormatInit /\ [][FormatApply]_vars

\* the default record, field by field
DefaultRecord ==
    [address |-> << >>, isConnected |-> FALSE, isConnecting |-> FALSE,
     error |-> << >>, chainId |-> << >>, balance |-> << >>]

\* C1: isConnecting and isConnected are never both true.
C1_NotConnectingAndConnected ==
    ~(walletState.isConnecting /\ walletState.isConnected)

\* C2: right after a disconnect() call the state is exactly the default
\* record and the persisted flag is cleared, whatever the state was before.
C2_DisconnectYieldsDefault ==
    last.op = "disconnect" => (walletState = DefaultRecord /\ flag = FALSE)

C2_Witness ==
    /\ last.op = "disconnect"
    /\ \E t \in Suspended : At(t, "connect", "eth_getBalance")

\* C3: when a connect() completes (accounts non-empty, chain id and balance
\* fetched) the whole state is the connected snapshot of the first account,
\* the decimal chain id and the formatted balance, and the flag is set.
C3_ConnectSuccessSnapshot ==
    last.op = "connectSuccess" =>
        /\ walletState =
               [address |-> <<last.address>>, isConnected |-> TRUE,
                isConnecting |-> FALSE, error |-> << >>,
                chainId |-> <<DecimalString(last.chainId)>>,
                balance |-> <<FormatBalance(last.balance)>>]
        /\ flag = TRUE

C3_Witness ==
    /\ last.op = "connectSuccess"
    /\ walletState.address = <<"0xA">>
    /\ walletState.chainId = << <<"1">> >>
    /\ walletState.balance = << <<"1", ".", "2", "3", "4", "6">> >>
    /\ flag

\* C4: when the account request of a connect() rejects with an Error whose
\* message contains "User rejected", or with a value that is no Error, the
\* error becomes exactly "Connection rejected by user", isConnecting becomes
\* false and the persisted flag is not written.
C4_UserRejection ==
    [][\A t \in Suspended, r \in {UserRejectedError, PlainObject} :
          (ConnectReject(t, r) /\ t.pc = "eth_requestAccounts") =>
              /\ walletState'.error = << <<"Connection", "rejected", "by", "user">> >>
              /\ walletState'.isConnecting = FALSE
              /\ flag' = flag]_vars

C4_Witness ==
    /\ last.op = "connectRejected"
    /\ last.reason = UserRejectedError
    /\ walletState.error = <<RejectedByUserMessage>>
    /\ ~flag

ReconnectSuspended(bag) == \E t \in BagToSet(bag) : t.kind = "reconnect"

\* C5: auto-reconnect starts only at mount with the persisted flag set, the
\* prompting request eth_requestAccounts is issued by connect() calls only,
\* and a silent eth_accounts answer with an account followed by successful
\* fetches makes the state Connected with the first account of the answer.
C5_SilentReconnect ==
    [][/\ last'.req = "eth_requestAccounts" => last'.op = "connect"
       /\ \A u \in BagToSet(tasks') :
              u.pc = "eth_requestAccounts" => u.kind = "connect"
       /\ (ReconnectSuspended(tasks') /\ ~ReconnectSuspended(tasks)) =>
              (flag /\ last'.op = "mount" /\ last'.req = "eth_accounts")
       /\ \A t \in Suspended, a \in {<<"0xA", "0xB">>} :
              ReconnectAccounts(t, a) =>
                  \E u \in BagToSet(tasks') :
                      u.kind = "reconnect" /\ u.address = a[1]
       /\ \A t \in Suspended, b \in Balances :
              ReconnectBalance(t, b) =>
                  /\ walletState'.isConnected
                  /\ walletState'.address = <<t.address>>
                  /\ last'.req = "none"]_vars

C5_Witness ==
    /\ last.op = "reconnectSuccess"
    /\ walletState.isConnected
    /\ walletState.address = <<"0xA">>
    /\ flag

\* C6: the provider events accountsChanged with an empty list and disconnect
\* leave the exact default record and a cleared persisted flag, from the
\* Connected state as from any other.
C6_ProviderDisconnects ==
    last.op \in {"accountsChangedEmpty", "providerDisconnect"} =>
        (walletState = DefaultRecord /\ ~flag)

C6_Witness ==
    /\ last.op = "accountsChangedEmpty"
    /\ listenerConn
    /\ walletState = DefaultRecord
    /\ ~flag

\* C7: a disconnect() call that directly follows a disconnect() call changes
\* neither the wallet record nor the persisted flag.
C7_DisconnectIdempotent ==
    [][(last.op = "disconnect" /\ DisconnectCall) =>
           (walletState' = walletState /\ flag' = flag)]_vars

C7_Witness ==
    /\ last.op = "disconnect"
    /\ last.repeated
    /\ walletState = DefaultRecord
    /\ ~flag

\* C8: address is non-null exactly when isConnected is true.
C8_AddressIffConnected ==
    (walletState.address # << >>) <=> walletState.isConnected

C8_Witness ==
    /\ last.op = "connectRejected"
    /\ walletState.isConnected
    /\ walletState.address = <<"0xA">>

\* C9: isConnected turns from false to true only when a connect() call or
\* the auto-reconnect completes successfully.
C9_ConnectedOnlyByConnect ==
    [][(~walletState.isConnected /\ walletState'.isConnected) =>
           last'.op \in {"connectSuccess", "reconnectSuccess"}]_vars

\* C10: a connect() attempt that fails after the provider was found ends
\* with error non-null, isConnecting false and isConnected false.
C10_FailedConnectDisconnected ==
    last.op \in {"connectNoAccounts", "connectRejected"} =>
        /\ walletState.error # << >>
        /\ ~walletState.isConnecting
        /\ ~walletState.isConnected


\* C11: connect() without a provider sets error to the install message and
\* does nothing else: the other fields of the record, the persisted flag and
\* the suspended handlers are unchanged and no request is issued.
C11_NoProviderOnlyError ==
    [][(ConnectCall /\ ~hasProvider) =>
           /\ walletState'.error =
                  << <<"MetaMask", "is", "not", "installed", ".",
                       "Please", "install", "it", ".">> >>
           /\ walletState'.address = walletState.address
           /\ walletState'.isConnected = walletState.isConnected
           /\ walletState'.isConnecting = walletState.isConnecting
           /\ walletState'.chainId = walletState.chainId
           /\ walletState'.balance = walletState.balance
           /\ flag' = flag
           /\ tasks' = tasks
           /\ last'.req = "none"]_vars

C11_Witness ==
    /\ last.op = "connectNoProvider"
    /\ ~hasProvider
    /\ flag
    /\ walletState.error = <<NotInstalledMessage>>
    /\ tasks = EmptyBag


\* C12: on page teardown the persisted flag keeps its value when the
\* teardown is a reload and is cleared when it is a close, however the page
\* being torn down was itself loaded.
C12_FlagFollowsTeardown ==
    [][\A how \in {"reload", "close"} :
           Unload(how) =>
               flag' = (IF how = "reload" THEN flag ELSE FALSE)]_vars


\* C13: a chainChanged event delivered while the state is not Connected
\* issues no request and changes neither the wallet record nor the
\* persisted flag, and suspends no handler.
C13_ChainChangedIgnored ==
    [][\A h \in ChainHexes :
           (ChainChanged(h) /\ ~walletState.isConnected) =>
               /\ last'.req = "none"
               /\ tasks' = tasks
               /\ walletState' = walletState
               /\ flag' = flag]_vars


\* C14: after a failed auto-reconnect the persisted flag is cleared and the
\* wallet record is the default record, error null included.
C14_ReconnectFailureDefaults ==
    last.op = "reconnectFailed" => (flag = FALSE /\ walletState = DefaultRecord)

\* C14, amended: a failing auto-reconnect clears the persisted flag and
\* writes no field of the wallet record, so the record stays at its
\* defaults, error null, unless another operation changed it meanwhile.
C14_ReconnectFailureSilent ==
    [][last'.op = "reconnectFailed" =>
           /\ flag' = FALSE
           /\ walletState' = walletState
           /\ (walletState = DefaultRecord =>
                   (walletState' = DefaultRecord /\ walletState'.error = << >>))]_vars

C14_Witness ==
    /\ last.op = "reconnectFailed"
    /\ walletState = DefaultRecord
    /\ ~flag
    /\ navType = "reload"


CompletionOps ==
    {"connectSuccess", "reconnectSuccess", "accountsRefreshed", "chainRefreshed"}

IsDigit(c) == \E d \in 0..9 : DigitChars[d + 1] = c

DigitOf(c) == CHOOSE d \in 0..9 : DigitChars[d + 1] = c

\* the text has the shape d+ . dddd
FourFractionDigits(s) ==
    /\ Len(s) >= 6
    /\ s[Len(s) - 4] = "."
    /\ \A i \in 1..Len(s) : i # Len(s) - 4 => IsDigit(s[i])

\* the number a text of that shape denotes, in units of 10^-4
RECURSIVE UnitsOfText(_, _)
UnitsOfText(s, acc) ==
    IF s = << >> THEN acc
    ELSE IF Head(s) = "." THEN UnitsOfText(Tail(s), acc)
    ELSE UnitsOfText(Tail(s), acc * 10 + DigitOf(Head(s)))

\* C15: a stored balance is the fetched amount with exactly four
\* fractional digits, and 1.23456 ETH is stored as "1.2345".
C15_BalanceTruncated ==
    last.op = "formatted" =>
        /\ FourFractionDigits(walletState.balance[1])
        /\ last.balance = 123456 =>
               walletState.balance = << <<"1", ".", "2", "3", "4", "5">> >>

\* C15, amended: a stored balance is the multiple of 10^-4 ETH nearest to
\* the fetched amount, with exactly four fractional digits: 1.23456 ETH is
\* stored as "1.2346" and 1.23454 ETH as "1.2345".
C15_BalanceRounded ==
    last.op = "formatted" =>
        /\ FourFractionDigits(walletState.balance[1])
        /\ 10 * UnitsOfText(walletState.balance[1], 0) - last.balance \in -4..4
        /\ last.balance = 123456 =>
               walletState.balance = << <<"1", ".", "2", "3", "4", "6">> >>
        /\ last.balance = 123454 =>
               walletState.balance = << <<"1", ".", "2", "3", "4", "5">> >>

C15_Witness ==
    /\ last.op = "formatted"
    /\ last.balance = 123456
    /\ walletState.balance = << <<"1", ".", "2", "3", "4", "6">> >>

RefreshOps == {"accountsRefreshed", "chainRefreshed"}

\* the record's address, chainId and balance are those of the handler that
\* completed in the step just taken
ShowsCompleted(st, step) ==
    /\ st.address = <<step.address>>
    /\ st.chainId = (IF step.op = "chainRefreshed"
                     THEN <<step.chainIdString>>
                     ELSE <<DecimalString(step.chainId)>>)
    /\ st.balance = <<FormatBalance(step.balance)>>

\* C17 as stated: a refresh that completes while the record is connected
\* updates address, chainId and balance, keeps isConnected true, and leaves
\* isConnecting and error as they were.
C17_RefreshKeepsConnectingAndError ==
    [][(last'.op \in RefreshOps /\ walletState.isConnected) =>
          /\ ShowsCompleted(walletState', last')
          /\ walletState'.isConnected
          /\ walletState'.isConnecting = walletState.isConnecting
          /\ walletState'.error = walletState.error]_vars

\* C17, amended: a refresh that completes while the record is connected
\* updates address, chainId and balance, keeps isConnected true, leaves
\* isConnecting as it was and sets error to null.
C17_RefreshKeepsConnectingClearsError ==
    [][(last'.op \in RefreshOps /\ walletState.isConnected) =>
          /\ ShowsCompleted(walletState', last')
          /\ walletState'.isConnected
          /\ walletState'.isConnecting = walletState.isConnecting
          /\ walletState'.error = << >>]_vars

C17_Witness ==
    /\ last.op = "accountsRefreshed"
    /\ last.wasConnected
    /\ walletState.isConnected
    /\ walletState.isConnecting
    /\ walletState.address = <<"0xB">>
    /\ walletState.error = << >>


\* C18: disconnect() resets the record and the flag and leaves every
\* suspended handler suspended; a handler that completes directly after the
\* disconnect() makes the record connected again with no new request, and a
\* connect() that does so sets the flag again.
C18_DisconnectCancelsNothing ==
    [][/\ last'.op = "disconnect" =>
            /\ tasks' = tasks
            /\ walletState' = DefaultRecord
            /\ flag' = FALSE
       /\ (last'.op \in CompletionOps /\ last'.after = "disconnect") =>
            /\ walletState'.isConnected
            /\ ShowsCompleted(walletState', last')
            /\ last'.req = "none"
            /\ last'.op = "connectSuccess" => flag']_vars

C18_Witness ==
    /\ last.op = "connectSuccess"
    /\ last.after = "disconnect"
    /\ ~last.wasConnected
    /\ walletState.isConnected
    /\ flag


\* C19: after a handler completes, address, chainId and balance are those
\* of that handler, whatever was issued or completed before it; a connect()
\* that completes replaces the whole record, also when the refresh of an
\* accountsChanged event delivered after the call has completed before it.
C19_LastCompletionWins ==
    last.op \in CompletionOps =>
        /\ ShowsCompleted(walletState, last)
        /\ last.op = "connectSuccess" =>
              walletState = ConnectedSnapshot(last.address, last.chainId,
                                              last.balance)

C19_Witness ==
    /\ last.op = "connectSuccess"
    /\ last.raced
    /\ last.after = "accountsRefreshed"
    /\ last.wasConnected
    /\ walletState.address = <<"0xA">>


ConnectSuspended(bag) == \E u \in BagToSet(bag) : u.kind = "connect"

\* C20: isConnecting is true only while a connect() call is suspended at one
\* of its requests, and it turns true only in the step of a connect() call:
\* auto-reconnect and the provider-event handlers never set it.
C20_ConnectingOnlyInConnect ==
    [][/\ walletState'.isConnecting => ConnectSuspended(tasks')
       /\ (~walletState.isConnecting /\ walletState'.isConnecting) =>
              last'.op = "connect"
       /\ last'.op \in {"reconnectSuccess", "reconnectNoAccounts",
                        "reconnectFailed"} \cup RefreshOps =>
              (walletState'.isConnecting => walletState.isConnecting)]_vars

C20_Witness ==
    /\ last.op = "accountsRefreshed"
    /\ walletState.isConnecting
    /\ walletState.isConnected
    /\ \E u \in BagToSet(tasks) : u.kind = "connect" /\ u.pc = "eth_getBalance"


\* C21: whenever the record is connected the persisted flag is set.
C21_ConnectedImpliesFlag == walletState.isConnected => flag


\* C23 as stated: once the silent query of auto-reconnect is answered with
\* zero accounts, the record is at its defaults and the flag is set.
C23_NoAccountsDefaultsAndFlag ==
    last.op = "reconnectNoAccounts" => (walletState = DefaultRecord /\ flag)

\* C23, amended: an answer of zero accounts to the silent query, and a mount
\* with the flag set on a page without a provider, write neither the record
\* nor the flag and issue no request; no step of auto-reconnect other than
\* its failure changes the flag; and every mount that finds the flag set and
\* a provider issues the silent query again.
C23_NoAccountsWritesNothing ==
    [][/\ last'.op = "reconnectNoAccounts" =>
            /\ walletState' = walletState
            /\ flag' = flag
            /\ last'.req = "none"
       /\ (last'.op = "mount" /\ ~hasProvider) =>
            /\ walletState' = walletState
            /\ flag' = flag
            /\ tasks' = tasks
            /\ last'.req = "none"
       /\ (last'.op = "mount" /\ hasProvider /\ flag) =>
            /\ last'.req = "eth_accounts"
            /\ ReconnectSuspended(tasks')
            /\ flag'
       /\ (last'.op \in {"resumed", "reconnectSuccess"}) => flag' = flag]_vars

C23_Witness ==
    /\ last.op = "reconnectNoAccounts"
    /\ walletState = DefaultRecord
    /\ flag
    /\ navType = "reload"
    /\ tasks = EmptyBag


ConnectEnds == {"connectSuccess", "connectRejected", "connectNoAccounts"}

DisconnectOps ==
    {"disconnect", "accountsChangedEmpty", "providerDisconnect",
     "chainNoAccounts"}

====
